---- MODULE Spec2Model ----
(***************************************************************************)
(* A model of src/app.py: the geometry helper fit_rect_keep_aspect, the    *)
(* JPEG encoder encode_pixmap_to_jpeg with its Pillow fallback, and the    *)
(* orchestrator rasterize_pdf_to_images_pdf, one action per statement of   *)
(* the orchestrator.  Library calls (PyMuPDF, Pillow, the file system)     *)
(* either succeed or raise; which of the two is chosen by the environment. *)
(* Point and pixel quantities are exact rationals <<numerator, denom>>.    *)
(***************************************************************************)
EXTENDS Integers, Sequences, FiniteSets, TLC

VARIABLES
    pc,          \* the statement of rasterize_pdf_to_images_pdf about to run
    arg,         \* the call's arguments: input_pdf, dpi, quality, grayscale, a4_portrait
    env,         \* what the call finds: the source's pages, needs_pass, Pillow imported or not
    fs,          \* the file system: path -> content
    out_path,    \* local out_path
    srcDoc,      \* the source document handle: [state, opens, closes]
    dstDoc,      \* the destination document handle: [state, opens, closes]
    dstPages,    \* the destination document's pages, each [width, height, images]
    page_w,      \* local page_w (points)
    page_h,      \* local page_h (points)
    zoom,        \* local zoom = dpi / 72
    i,           \* the loop variable
    pix,         \* local pix: the rendered pixmap
    img,         \* encode_pixmap_to_jpeg's local img: the Pillow image
    img_bytes,   \* local img_bytes: the encoded image
    rect,        \* local rect: the placement rectangle
    exc,         \* the exception in flight ("" when none)
    ret,         \* the value of the return statement waiting for the finally block
    result,      \* how the call ended: [kind, error, path]
    log,         \* the library calls made so far, in order
    fitIn,       \* arguments of a stand-alone call of fit_rect_keep_aspect
    fitOut       \* its result

vars == <<pc, arg, env, fs, out_path, srcDoc, dstDoc, dstPages, page_w, page_h,
          zoom, i, pix, img, img_bytes, rect, exc, ret, result, log, fitIn, fitOut>>

(***************************************************************************)
(* Bounds.                                                                 *)
(***************************************************************************)
MaxPages == 2
MaxImg == 4
MaxPagePt == 3

(***************************************************************************)
(* Exact rational arithmetic.                                              *)
(***************************************************************************)
RECURSIVE GCD(_, _)
GCD(a, b) == IF b = 0 THEN a ELSE GCD(b, a % b)

Abs(a) == IF a < 0 THEN -a ELSE a

Norm(q) ==
    LET g == GCD(Abs(q[1]), q[2])
    IN  IF g = 0 THEN q ELSE <<q[1] \div g, q[2] \div g>>

Rat(n) == <<n, 1>>

\* sums and comparisons over the least common denominator, products reduced crosswise:
\* the same rationals, with intermediate integers kept small
RatAdd(a, b) ==
    LET g == GCD(a[2], b[2])
    IN  Norm(<<a[1] * (b[2] \div g) + b[1] * (a[2] \div g), (a[2] \div g) * b[2]>>)

RatSub(a, b) == RatAdd(a, <<-b[1], b[2]>>)

RatMul(a, b) ==
    LET g1 == GCD(Abs(a[1]), b[2])
        g2 == GCD(Abs(b[1]), a[2])
    IN  Norm(<<(a[1] \div g1) * (b[1] \div g2), (a[2] \div g2) * (b[2] \div g1)>>)

\* b > 0
RatDiv(a, b) == RatMul(a, <<b[2], b[1]>>)

RatLe(a, b) ==
    LET g == GCD(a[2], b[2])
    IN  a[1] * (b[2] \div g) <= b[1] * (a[2] \div g)

RatEq(a, b) == RatLe(a, b) /\ RatLe(b, a)
RatMin(a, b) == IF RatLe(a, b) THEN a ELSE b
RatMax(a, b) == IF RatLe(a, b) THEN b ELSE a

(***************************************************************************)
(* A4 in points: 210 mm and 297 mm at 72 per inch (25.4 mm).               *)
(***************************************************************************)
A4_WIDTH_PT == <<75600, 127>>
A4_HEIGHT_PT == <<106920, 127>>

(***************************************************************************)
(* fit_rect_keep_aspect.                                                   *)
(***************************************************************************)
\* a scale that never enlarges the image
FitScaleNoUpscale(img_w, img_h, pw, ph) ==
    RatMin(Rat(1), RatMin(RatDiv(pw, Rat(img_w)), RatDiv(ph, Rat(img_h))))

\* the larger of the two axis ratios
FitScaleMax(img_w, img_h, pw, ph) ==
    RatMax(RatDiv(pw, Rat(img_w)), RatDiv(ph, Rat(img_h)))

\* line 19
FitScale(img_w, img_h, pw, ph) ==
    RatMin(RatDiv(pw, Rat(img_w)), RatDiv(ph, Rat(img_h)))

\* lines 17-24
fit_rect_keep_aspect(img_w, img_h, pw, ph) ==
    LET scale == FitScale(img_w, img_h, pw, ph)
        w == RatMul(Rat(img_w), scale)
        h == RatMul(Rat(img_h), scale)
        x == RatDiv(RatSub(pw, w), Rat(2))
        y == RatDiv(RatSub(ph, h), Rat(2))
    IN  [x0 |-> x, y0 |-> y, x1 |-> RatAdd(x, w), y1 |-> RatAdd(y, h)]

(***************************************************************************)
(* File names are sequences of characters; pathlib's suffix and stem, and  *)
(* str.lower, are computed on them.                                        *)
(***************************************************************************)
Lower(c) ==
    CASE c = "P" -> "p"
      [] c = "D" -> "d"
      [] c = "F" -> "f"
      [] c = "A" -> "a"
      [] OTHER -> c

LowerSeq(s) == [k \in 1..Len(s) |-> Lower(s[k])]

\* str.rfind(".") as a 1-based index, 0 when there is no dot
LastDot(name) ==
    LET dots == { k \in 1..Len(name) : name[k] = "." }
    IN  IF dots = {} THEN 0 ELSE CHOOSE k \in dots : \A m \in dots : m <= k

\* PurePath.suffix: the last dot starts a suffix unless it is the first or the
\* last character of the name
PathSuffix(name) ==
    LET d == LastDot(name)
    IN  IF 1 < d /\ d < Len(name) THEN SubSeq(name, d, Len(name)) ELSE <<>>

\* PurePath.stem
PathStem(name) ==
    LET d == LastDot(name)
    IN  IF 1 < d /\ d < Len(name) THEN SubSeq(name, 1, d - 1) ELSE name

DotPdf == <<".", "p", "d", "f">>
Suffix01 == <<" ", "(", "0", "1", ")">>

\* line 56: input_pdf.suffix.lower() == ".pdf"
SuffixIsPdf(p) == LowerSeq(PathSuffix(p.name)) = DotPdf

\* the output written over the input
DerivedOutPathSame(p) == [dir |-> p.dir, name |-> p.name]

\* line 59: input_pdf.with_name(f"{input_pdf.stem} (01).pdf")
DerivedOutPath(p) == [dir |-> p.dir, name |-> PathStem(p.name) \o Suffix01 \o DotPdf]

(***************************************************************************)
(* The inputs the model draws from.                                        *)
(***************************************************************************)
Names ==
    { <<"a", ".", "p", "d", "f">>,
      <<"a", ".", "P", "D", "F">>,
      <<"a", " ", "(", "0", "1", ")", ".", "p", "d", "f">>,
      <<"a", ".", "t", "x", "t">>,
      <<"a", ".", "p", "d", "f", ".", "t", "x", "t">>,
      <<".", "p", "d", "f">>,
      <<"a", "p", "d", "f">>,
      <<"a", ".">> }

Dirs == {"docs"}

\* a file that may already be there: the output of an earlier run on a.pdf
PriorOutput == [dir |-> "docs", name |-> <<"a", " ", "(", "0", "1", ")", ".", "p", "d", "f">>]

\* source page sizes in points
SrcSizes == { <<1, 1>>, <<2, 3>> }

SeqsUpTo(S, n) == UNION { [1..k -> S] : k \in 0..n }

Dpis == {72, 144}
Qualities == {60, 85}

NoPath == [dir |-> "", name |-> <<>>]
NoPix == [page |-> -1, width |-> 0, height |-> 0, n |-> 0]
NoImg == [mode |-> "", width |-> 0, height |-> 0, page |-> -1]
NoBytes == [encoder |-> "", page |-> -1, width |-> 0, height |-> 0, mode |-> "", quality |-> 0]
NoRect == [x0 |-> Rat(0), y0 |-> Rat(0), x1 |-> Rat(0), y1 |-> Rat(0)]
NoFit == [img_w |-> 0, img_h |-> 0, page_w |-> Rat(0), page_h |-> Rat(0)]
NoResult == [kind |-> "none", error |-> "", path |-> NoPath]
FreshDoc == [state |-> "none", opens |-> 0, closes |-> 0]

Original(p) == [kind |-> "original", of |-> p, pages |-> <<>>]

\* a library call: its name, the page it worked on (-1: none), the error it raised ("": none)
Ev(op, page, err) == [op |-> op, page |-> page, err |-> err]

Init ==
    /\ pc = "check_exists"
    /\ \E d \in Dirs, nm \in Names, dpi \in Dpis, q \in Qualities,
          g \in BOOLEAN, a4 \in BOOLEAN :
          arg = [input_pdf |-> [dir |-> d, name |-> nm], dpi |-> dpi, quality |-> q,
                 grayscale |-> g, a4_portrait |-> a4]
    /\ \E pages \in SeqsUpTo(SrcSizes, MaxPages), np \in BOOLEAN, pil \in BOOLEAN :
          env = [pages |-> pages, needs_pass |-> np, pillow |-> pil]
    /\ \E present \in SUBSET {arg.input_pdf, PriorOutput} :
          fs = [p \in present |-> Original(p)]
    /\ out_path = NoPath
    /\ srcDoc = FreshDoc
    /\ dstDoc = FreshDoc
    /\ dstPages = <<>>
    /\ page_w = Rat(0)
    /\ page_h = Rat(0)
    /\ zoom = Rat(0)
    /\ i = 0
    /\ pix = NoPix
    /\ img = NoImg
    /\ img_bytes = NoBytes
    /\ rect = NoRect
    /\ exc = ""
    /\ ret = NoPath
    /\ result = NoResult
    /\ log = <<>>
    /\ fitIn = NoFit
    /\ fitOut = NoRect

(***************************************************************************)
(* Exceptions.  Lines 54-63 are outside the try block: an exception there  *)
(* ends the call at once.  Inside the try block (65-93) an exception runs  *)
(* the finally block (94-96) first.                                        *)
(***************************************************************************)
Raised(e) == [kind |-> "raise", error |-> e, path |-> NoPath]
Returned(p) == [kind |-> "return", error |-> "", path |-> p]

RaiseOutsideTry(e) ==
    /\ pc' = "done"
    /\ result' = Raised(e)
    /\ UNCHANGED <<exc, ret, i>>

\* a handler that swallows the exception and goes on with the next page
PropagateSkipPage(e) ==
    /\ pc' = "loop"
    /\ i' = i + 1
    /\ UNCHANGED <<exc, ret, result>>

PropagateToFinally(e) ==
    /\ pc' = "close_src"
    /\ exc' = e
    /\ UNCHANGED <<ret, result, i>>

Goto(l) ==
    /\ pc' = l
    /\ UNCHANGED <<exc, ret, result, i>>

Logged(op, page, err) == log' = Append(log, Ev(op, page, err))

(***************************************************************************)
(* rasterize_pdf_to_images_pdf, statement by statement.                    *)
(***************************************************************************)
\* the existence test left out
InputExistsUnchecked(p) == TRUE

\* line 54: input_pdf.exists()
InputExists(p) == p \in DOMAIN fs

\* lines 54-55
CheckExists ==
    /\ pc = "check_exists"
    /\ IF ~InputExists(arg.input_pdf)
          THEN RaiseOutsideTry("NotFound")
          ELSE Goto("check_suffix")
    /\ UNCHANGED <<arg, env, fs, out_path, srcDoc, dstDoc, dstPages, page_w, page_h,
                   zoom, pix, img, img_bytes, rect, log, fitIn, fitOut>>

\* lines 56-57
CheckSuffix ==
    /\ pc = "check_suffix"
    /\ IF ~SuffixIsPdf(arg.input_pdf)
          THEN RaiseOutsideTry("InvalidFormat")
          ELSE Goto("derive_out")
    /\ UNCHANGED <<arg, env, fs, out_path, srcDoc, dstDoc, dstPages, page_w, page_h,
                   zoom, pix, img, img_bytes, rect, log, fitIn, fitOut>>

\* line 59
DeriveOut ==
    /\ pc = "derive_out"
    /\ out_path' = DerivedOutPath(arg.input_pdf)
    /\ Goto("open_src")
    /\ UNCHANGED <<arg, env, fs, srcDoc, dstDoc, dstPages, page_w, page_h,
                   zoom, pix, img, img_bytes, rect, log, fitIn, fitOut>>

\* line 62: fitz.open(input_pdf)
OpenSrc ==
    /\ pc = "open_src"
    /\ \/ /\ Logged("open_src", -1, "")
          /\ srcDoc' = [srcDoc EXCEPT !.state = "open", !.opens = @ + 1]
          /\ Goto("open_dst")
       \/ /\ Logged("open_src", -1, "OpenFailure")
          /\ UNCHANGED srcDoc
          /\ RaiseOutsideTry("OpenFailure")
    /\ UNCHANGED <<arg, env, fs, out_path, dstDoc, dstPages, page_w, page_h,
                   zoom, pix, img, img_bytes, rect, fitIn, fitOut>>

\* line 63: fitz.open()
OpenDst ==
    /\ pc = "open_dst"
    /\ \/ /\ Logged("open_dst", -1, "")
          /\ dstDoc' = [dstDoc EXCEPT !.state = "open", !.opens = @ + 1]
          /\ Goto("check_pass")
       \/ /\ Logged("open_dst", -1, "OpenFailure")
          /\ UNCHANGED dstDoc
          /\ RaiseOutsideTry("OpenFailure")
    /\ UNCHANGED <<arg, env, fs, out_path, srcDoc, dstPages, page_w, page_h,
                   zoom, pix, img, img_bytes, rect, fitIn, fitOut>>

\* the password test left out
NeedsPassIgnored == FALSE

\* line 66: src.needs_pass
NeedsPass == env.needs_pass

\* lines 66-67
CheckPass ==
    /\ pc = "check_pass"
    /\ IF NeedsPass
          THEN PropagateToFinally("Encrypted")
          ELSE Goto("page_size")
    /\ UNCHANGED <<arg, env, fs, out_path, srcDoc, dstDoc, dstPages, page_w, page_h,
                   zoom, pix, img, img_bytes, rect, log, fitIn, fitOut>>

\* lines 70-76
PageSize ==
    /\ pc = "page_size"
    /\ page_w' = IF arg.a4_portrait THEN A4_WIDTH_PT ELSE A4_HEIGHT_PT
    /\ page_h' = IF arg.a4_portrait THEN A4_HEIGHT_PT ELSE A4_WIDTH_PT
    /\ zoom' = RatDiv(Rat(arg.dpi), Rat(72))
    /\ Goto("loop")
    /\ UNCHANGED <<arg, env, fs, out_path, srcDoc, dstDoc, dstPages,
                   pix, img, img_bytes, rect, log, fitIn, fitOut>>

\* range(len(src)) with one page too few
LoopCountShort == IF Len(env.pages) = 0 THEN 0 ELSE Len(env.pages) - 1

\* line 78: len(src)
LoopCount == Len(env.pages)

\* line 78: for i in range(len(src))
LoopHead ==
    /\ pc = "loop"
    /\ IF i < LoopCount THEN Goto("load_page") ELSE Goto("save")
    /\ UNCHANGED <<arg, env, fs, out_path, srcDoc, dstDoc, dstPages, page_w, page_h,
                   zoom, pix, img, img_bytes, rect, log, fitIn, fitOut>>

\* line 79: src.load_page(i)
LoadPage ==
    /\ pc = "load_page"
    /\ \/ /\ Logged("load_page", i, "")
          /\ Goto("get_pixmap")
       \/ /\ Logged("load_page", i, "LoadFailure")
          /\ PropagateToFinally("LoadFailure")
    /\ UNCHANGED <<arg, env, fs, out_path, srcDoc, dstDoc, dstPages, page_w, page_h,
                   zoom, pix, img, img_bytes, rect, fitIn, fitOut>>

\* the pixmap of source page k under the matrix (zoom, zoom), without alpha
\* (the page sizes and dpi values drawn here give whole numbers of pixels)
Rendered(k) ==
    [page |-> k,
     width |-> RatMul(Rat(env.pages[k + 1][1]), zoom)[1],
     height |-> RatMul(Rat(env.pages[k + 1][2]), zoom)[1],
     n |-> IF arg.grayscale THEN 1 ELSE 3]

\* line 81: page.get_pixmap(...)
GetPixmap ==
    /\ pc = "get_pixmap"
    /\ \/ /\ Logged("get_pixmap", i, "")
          /\ pix' = Rendered(i)
          /\ Goto("enc_primary")
       \/ /\ Logged("get_pixmap", i, "RenderFailure")
          /\ UNCHANGED pix
          /\ PropagateToFinally("RenderFailure")
    /\ UNCHANGED <<arg, env, fs, out_path, srcDoc, dstDoc, dstPages, page_w, page_h,
                   zoom, img, img_bytes, rect, fitIn, fitOut>>

(***************************************************************************)
(* encode_pixmap_to_jpeg(pix, quality), called at line 84.                 *)
(***************************************************************************)
\* the fallback image built as RGB whatever the pixmap
PilModeAlwaysRGB(px) == "RGB"

\* line 40
PilMode(px) == IF px.n = 1 THEN "L" ELSE "RGB"

\* what PyMuPDF's encoder writes for a pixmap: a JPEG of the pixmap's size, gray for
\* one channel and colour otherwise
NativeJpeg(px, q) ==
    [encoder |-> "pymupdf", page |-> px.page, width |-> px.width, height |-> px.height,
     mode |-> IF px.n = 1 THEN "L" ELSE "RGB", quality |-> q]

\* what Pillow writes for an image
PillowJpeg(im, q) ==
    [encoder |-> "pillow", page |-> im.page, width |-> im.width, height |-> im.height,
     mode |-> im.mode, quality |-> q]

\* line 33 returns: encode_pixmap_to_jpeg is over
PrimaryReturned ==
    /\ img_bytes' = NativeJpeg(pix, arg.quality)
    /\ Goto("new_page")

\* lines 32-39: the primary encoder; when it raises, the except branch's test of
\* Image (None when Pillow could not be imported, lines 8-11)
EncPrimary ==
    /\ pc = "enc_primary"
    /\ \/ /\ Logged("get_image_data", i, "")
          /\ PrimaryReturned
       \/ /\ Logged("get_image_data", i, "PrimaryFailure")
          /\ UNCHANGED img_bytes
          /\ IF ~env.pillow
                THEN PropagateToFinally("MissingDependency")
                ELSE Goto("enc_frombytes")
    /\ UNCHANGED <<arg, env, fs, out_path, srcDoc, dstDoc, dstPages, page_w, page_h,
                   zoom, pix, img, rect, fitIn, fitOut>>

\* lines 40-41: Image.frombytes(mode, (pix.width, pix.height), pix.samples)
EncFromBytes ==
    /\ pc = "enc_frombytes"
    /\ \/ /\ Logged("Image.frombytes", i, "")
          /\ img' = [mode |-> PilMode(pix), width |-> pix.width, height |-> pix.height,
                     page |-> pix.page]
          /\ Goto("enc_save")
       \/ /\ Logged("Image.frombytes", i, "EncodingFailure")
          /\ UNCHANGED img
          /\ PropagateToFinally("EncodingFailure")
    /\ UNCHANGED <<arg, env, fs, out_path, srcDoc, dstDoc, dstPages, page_w, page_h,
                   zoom, pix, img_bytes, rect, fitIn, fitOut>>

\* lines 42-44: img.save(buf, format="JPEG", ...) and return buf.getvalue()
EncSave ==
    /\ pc = "enc_save"
    /\ \/ /\ Logged("img.save", i, "")
          /\ img_bytes' = PillowJpeg(img, arg.quality)
          /\ Goto("new_page")
       \/ /\ Logged("img.save", i, "EncodingFailure")
          /\ UNCHANGED img_bytes
          /\ PropagateToFinally("EncodingFailure")
    /\ UNCHANGED <<arg, env, fs, out_path, srcDoc, dstDoc, dstPages, page_w, page_h,
                   zoom, pix, img, rect, fitIn, fitOut>>

(***************************************************************************)
(* Lines 87-96.                                                            *)
(***************************************************************************)
\* line 87: dst.new_page(width=page_w, height=page_h)
NewPage ==
    /\ pc = "new_page"
    /\ \/ /\ Logged("new_page", i, "")
          /\ dstPages' = Append(dstPages, [width |-> page_w, height |-> page_h, images |-> <<>>])
          /\ Goto("fit_rect")
       \/ /\ Logged("new_page", i, "PageFailure")
          /\ UNCHANGED dstPages
          /\ PropagateToFinally("PageFailure")
    /\ UNCHANGED <<arg, env, fs, out_path, srcDoc, dstDoc, page_w, page_h,
                   zoom, pix, img, img_bytes, rect, fitIn, fitOut>>

\* line 88
FitRect ==
    /\ pc = "fit_rect"
    /\ Logged("fit_rect_keep_aspect", i, "")
    /\ rect' = fit_rect_keep_aspect(pix.width, pix.height, page_w, page_h)
    /\ Goto("insert_image")
    /\ UNCHANGED <<arg, env, fs, out_path, srcDoc, dstDoc, dstPages, page_w, page_h,
                   zoom, pix, img, img_bytes, fitIn, fitOut>>

\* the image put on the document's first page instead
WithImageOnFirstPage(pages, r, b) ==
    [pages EXCEPT ![1].images = Append(@, [rect |-> r, stream |-> b])]

\* line 89: new_page is the page line 87 appended, the last one of dst
WithImage(pages, r, b) ==
    [pages EXCEPT ![Len(pages)].images = Append(@, [rect |-> r, stream |-> b])]

\* line 89: new_page.insert_image(rect, stream=img_bytes)
InsertImage ==
    /\ pc = "insert_image"
    /\ \/ /\ Logged("insert_image", i, "")
          /\ dstPages' = WithImage(dstPages, rect, img_bytes)
          /\ pc' = "loop"
          /\ i' = i + 1
          /\ UNCHANGED <<exc, ret, result>>
       \/ /\ Logged("insert_image", i, "EmbedFailure")
          /\ UNCHANGED dstPages
          /\ PropagateToFinally("EmbedFailure")
    /\ UNCHANGED <<arg, env, fs, out_path, srcDoc, dstDoc, page_w, page_h,
                   zoom, pix, img, img_bytes, rect, fitIn, fitOut>>

Saved(pages) == [kind |-> "rasterized", of |-> NoPath, pages |-> pages]
Partial == [kind |-> "partial", of |-> NoPath, pages |-> <<>>]

\* lines 92-93: dst.save(out_path, ...) and return out_path.  A save that raises has
\* written nothing or a part of the file.
Save ==
    /\ pc = "save"
    /\ \/ /\ Logged("save", -1, "")
          /\ fs' = (out_path :> Saved(dstPages)) @@ fs
          /\ ret' = out_path
          /\ pc' = "close_src"
          /\ UNCHANGED <<exc, result, i>>
       \/ /\ Logged("save", -1, "IOFailure")
          /\ fs' \in {fs, (out_path :> Partial) @@ fs}
          /\ PropagateToFinally("IOFailure")
    /\ UNCHANGED <<arg, env, out_path, srcDoc, dstDoc, dstPages, page_w, page_h,
                   zoom, pix, img, img_bytes, rect, fitIn, fitOut>>

\* line 95: src.close(), first statement of the finally block; if it raises, line 96
\* does not run and the exception replaces the one in flight or the return value
CloseSrc ==
    /\ pc = "close_src"
    /\ \/ /\ Logged("src.close", -1, "")
          /\ srcDoc' = [srcDoc EXCEPT !.state = "closed", !.closes = @ + 1]
          /\ Goto("close_dst")
       \/ /\ Logged("src.close", -1, "CloseFailure")
          /\ UNCHANGED srcDoc
          /\ pc' = "done"
          /\ result' = Raised("CloseFailure")
          /\ UNCHANGED <<exc, ret, i>>
    /\ UNCHANGED <<arg, env, fs, out_path, dstDoc, dstPages, page_w, page_h,
                   zoom, pix, img, img_bytes, rect, fitIn, fitOut>>

\* line 96: dst.close(), then the call ends: with the exception dst.close raised, or
\* with the exception in flight, or with the return value
CloseDst ==
    /\ pc = "close_dst"
    /\ pc' = "done"
    /\ \/ /\ Logged("dst.close", -1, "")
          /\ dstDoc' = [dstDoc EXCEPT !.state = "closed", !.closes = @ + 1]
          /\ result' = IF exc # "" THEN Raised(exc) ELSE Returned(ret)
       \/ /\ Logged("dst.close", -1, "CloseFailure")
          /\ UNCHANGED dstDoc
          /\ result' = Raised("CloseFailure")
    /\ UNCHANGED <<arg, env, fs, out_path, srcDoc, dstPages, page_w, page_h,
                   zoom, i, pix, img, img_bytes, rect, exc, ret, fitIn, fitOut>>

Next ==
    \/ CheckExists
    \/ CheckSuffix
    \/ DeriveOut
    \/ OpenSrc
    \/ OpenDst
    \/ CheckPass
    \/ PageSize
    \/ LoopHead
    \/ LoadPage
    \/ GetPixmap
    \/ EncPrimary
    \/ EncFromBytes
    \/ EncSave
    \/ NewPage
    \/ FitRect
    \/ InsertImage
    \/ Save
    \/ CloseSrc
    \/ CloseDst

Spec == Init /\ [][Next]_vars

(***************************************************************************)
(* fit_rect_keep_aspect on its own, over bounded image and page sizes.     *)
(***************************************************************************)
FitPageDims ==
    { <<k, d>> : k \in 1..MaxPagePt, d \in 1..2 } \cup {A4_WIDTH_PT, A4_HEIGHT_PT}

InitFit ==
    /\ pc = "fit_call"
    /\ arg = [input_pdf |-> NoPath, dpi |-> 144, quality |-> 60,
              grayscale |-> FALSE, a4_portrait |-> TRUE]
    /\ env = [pages |-> <<>>, needs_pass |-> FALSE, pillow |-> FALSE]
    /\ fs = <<>>
    /\ out_path = NoPath
    /\ srcDoc = FreshDoc
    /\ dstDoc = FreshDoc
    /\ dstPages = <<>>
    /\ page_w = Rat(0)
    /\ page_h = Rat(0)
    /\ zoom = Rat(0)
    /\ i = 0
    /\ pix = NoPix
    /\ img = NoImg
    /\ img_bytes = NoBytes
    /\ rect = NoRect
    /\ exc = ""
    /\ ret = NoPath
    /\ result = NoResult
    /\ log = <<>>
    /\ \E w \in 1..MaxImg, h \in 1..MaxImg, pw \in FitPageDims, ph \in FitPageDims :
          fitIn = [img_w |-> w, img_h |-> h, page_w |-> pw, page_h |-> ph]
    /\ fitOut = NoRect

FitCall ==
    /\ pc = "fit_call"
    /\ fitOut' = fit_rect_keep_aspect(fitIn.img_w, fitIn.img_h, fitIn.page_w, fitIn.page_h)
    /\ pc' = "fit_done"
    /\ UNCHANGED <<arg, env, fs, out_path, srcDoc, dstDoc, dstPages, page_w, page_h,
                   zoom, i, pix, img, img_bytes, rect, exc, ret, result, log, fitIn>>

NextFit == FitCall

SpecFit == InitFit /\ [][NextFit]_vars

(***************************************************************************)
(* Properties of fit_rect_keep_aspect (checked under SpecFit).             *)
(***************************************************************************)
RatLt(a, b) == ~RatLe(b, a)
FitWidth == RatSub(fitOut.x1, fitOut.x0)
FitHeight == RatSub(fitOut.y1, fitOut.y0)
FitReturned == pc = "fit_done"

\* C8: for positive image and page dimensions the returned rectangle lies within the
\* page (0 <= x0 <= x1 <= pageW, 0 <= y0 <= y1 <= pageH), its centre is the page's
\* centre, and (x1 - x0) * imgH = (y1 - y0) * imgW.
C8_ContainedCenteredAspect ==
    FitReturned =>
        /\ RatLe(Rat(0), fitOut.x0) /\ RatLe(fitOut.x0, fitOut.x1)
        /\ RatLe(fitOut.x1, fitIn.page_w)
        /\ RatLe(Rat(0), fitOut.y0) /\ RatLe(fitOut.y0, fitOut.y1)
        /\ RatLe(fitOut.y1, fitIn.page_h)
        /\ RatEq(RatAdd(fitOut.x0, fitOut.x1), fitIn.page_w)
        /\ RatEq(RatAdd(fitOut.y0, fitOut.y1), fitIn.page_h)
        /\ RatEq(RatMul(FitWidth, Rat(fitIn.img_h)), RatMul(FitHeight, Rat(fitIn.img_w)))

\* a wide image on a portrait A4 page: the vertical margins are not zero
C8_Witness ==
    /\ FitReturned
    /\ fitIn.img_w = 3 /\ fitIn.img_h = 2
    /\ fitIn.page_w = A4_WIDTH_PT /\ fitIn.page_h = A4_HEIGHT_PT
    /\ RatLt(Rat(0), fitOut.y0)
    /\ RatEq(fitOut.x0, Rat(0))

\* uniform scales larger than the one chosen: the other axis' ratio, and the chosen
\* scale plus 1/m
LargerScales ==
    LET chosen == RatDiv(FitWidth, Rat(fitIn.img_w))
        all == { RatDiv(fitIn.page_w, Rat(fitIn.img_w)), RatDiv(fitIn.page_h, Rat(fitIn.img_h)) }
               \cup { RatAdd(chosen, <<1, m>>) : m \in 1..MaxImg }
    IN  { sc \in all : RatLt(chosen, sc) }

\* C9: the placed image is as wide as the page or as high as the page, so that every
\* strictly larger uniform scale exceeds the page on some axis; a square image on a
\* portrait A4 page takes the full width and has equal top and bottom margins.
C9_MaximalFit ==
    FitReturned =>
        /\ RatEq(FitWidth, fitIn.page_w) \/ RatEq(FitHeight, fitIn.page_h)
        /\ \A sc \in LargerScales :
              \/ RatLt(fitIn.page_w, RatMul(Rat(fitIn.img_w), sc))
              \/ RatLt(fitIn.page_h, RatMul(Rat(fitIn.img_h), sc))
        /\ (fitIn.img_w = fitIn.img_h /\ fitIn.page_w = A4_WIDTH_PT /\ fitIn.page_h = A4_HEIGHT_PT) =>
              /\ RatEq(FitWidth, fitIn.page_w)
              /\ RatEq(fitOut.y0, RatSub(fitIn.page_h, fitOut.y1))
              /\ RatLt(Rat(0), fitOut.y0)

\* a square image on a portrait A4 page
C9_Witness ==
    /\ FitReturned
    /\ fitIn.img_w = 2 /\ fitIn.img_h = 2
    /\ fitIn.page_w = A4_WIDTH_PT /\ fitIn.page_h = A4_HEIGHT_PT
    /\ RatEq(FitWidth, A4_WIDTH_PT)
    /\ LargerScales # {}

(***************************************************************************)
(* Properties of rasterize_pdf_to_images_pdf (checked under Spec).         *)
(***************************************************************************)
Done == pc = "done"
ReturnedPath == Done /\ result.kind = "return"
LogIdx == 1..Len(log)
Calls(op) == { k \in LogIdx : log[k].op = op }
CallsOk(op) == { k \in LogIdx : log[k].op = op /\ log[k].err = "" }
NothingWritten == \A p \in DOMAIN fs : fs[p] = Original(p)
CloseRaised == \E k \in LogIdx : log[k].op \in {"src.close", "dst.close"} /\ log[k].err # ""
SourcePages == Len(env.pages)

\* the pixel size of source page k (0-based) at the call's dpi
PixelWidth(k) == (env.pages[k + 1][1] * arg.dpi) \div 72
PixelHeight(k) == (env.pages[k + 1][2] * arg.dpi) \div 72

\* C1: when the call returns, the destination document (and the file saved from it)
\* has as many pages as the source, each page holds exactly one image, and the image
\* on page k is the one rendered from source page k.
C1_PagesPreserved ==
    ReturnedPath =>
        /\ Len(dstPages) = SourcePages
        /\ result.path \in DOMAIN fs
        /\ fs[result.path].kind = "rasterized"
        /\ fs[result.path].pages = dstPages
        /\ \A k \in 1..Len(dstPages) :
              /\ Len(dstPages[k].images) = 1
              /\ dstPages[k].images[1].stream.page = k - 1
              /\ dstPages[k].images[1].stream.width = PixelWidth(k - 1)
              /\ dstPages[k].images[1].stream.height = PixelHeight(k - 1)

\* a two-page source whose pages differ in size, converted
C1_Witness ==
    /\ ReturnedPath
    /\ SourcePages = 2
    /\ env.pages[1] # env.pages[2]
    /\ Len(dstPages) = 2
    /\ dstPages[1].images[1].stream.encoder = "pillow"
    /\ dstPages[2].images[1].stream.encoder = "pymupdf"

\* C1 for an empty source: the call returns and the saved document has no page
C1_WitnessEmpty == ReturnedPath /\ SourcePages = 0 /\ fs[result.path].pages = <<>>

\* C2: when the call has ended after opening the source, every document that was
\* opened has been closed exactly once.
C2_EveryOpenedDocumentClosed ==
    (Done /\ srcDoc.opens > 0) =>
        /\ srcDoc.closes = 1
        /\ dstDoc.opens > 0 => dstDoc.closes = 1

\* the destination could not be opened: the source stays open
C2_SourceLeaked ==
    /\ Done
    /\ srcDoc.state = "open"
    /\ dstDoc.opens = 0
    /\ log[Len(log)] = Ev("open_dst", -1, "OpenFailure")

\* both documents were opened and the password check (line 66) was reached
PasswordChecked == env.needs_pass /\ dstDoc.opens = 1

\* C3 as stated, read for the runs in which both close() calls succeed: a source that
\* needs a password makes the call fail with Encrypted, nothing is rendered, encoded
\* or saved, and no file exists at the derived output path afterwards.
C3_NoFileAtOutputPath ==
    (Done /\ PasswordChecked /\ ~CloseRaised) =>
        /\ result = Raised("Encrypted")
        /\ Calls("load_page") \cup Calls("get_pixmap") \cup Calls("get_image_data") = {}
        /\ Calls("save") = {}
        /\ out_path \notin DOMAIN fs

\* C3 amended: the try block raises Encrypted, which is what the caller gets unless a
\* close() of the finally block raises; nothing is rendered, encoded or saved; the
\* call writes no file, so a file is at the derived output path afterwards only if
\* one was there before.
C3_EncryptedRejected ==
    PasswordChecked =>
        /\ pc \in {"check_pass", "close_src", "close_dst", "done"}
        /\ pc # "check_pass" => exc = "Encrypted"
        /\ Done => /\ result.kind = "raise"
                   /\ result.error = IF CloseRaised THEN "CloseFailure" ELSE "Encrypted"
        /\ \A k \in LogIdx : log[k].op \in {"open_src", "open_dst", "src.close", "dst.close"}
        /\ NothingWritten
        /\ dstPages = <<>>

\* an encrypted source with the output of an earlier run beside it: rejected, and the
\* earlier output is still there
C3_Witness ==
    /\ Done
    /\ PasswordChecked
    /\ result = Raised("Encrypted")
    /\ out_path = PriorOutput
    /\ out_path \in DOMAIN fs

InputPresent == arg.input_pdf \in DOMAIN fs
NothingOpened == srcDoc = FreshDoc /\ dstDoc = FreshDoc /\ log = <<>>

\* the extension of a name, lower-cased: everything from the last dot on
LowerExtension(name) ==
    LET n == Len(name)
        d == LastDot(name)
    IN  IF d <= 1 \/ d = n THEN <<>> ELSE [k \in 1..(n - d + 1) |-> Lower(name[d + k - 1])]

\* C4: validation comes before any document is opened.  A missing input fails with
\* NotFound whatever its extension; an existing input whose extension is not .pdf
\* (case-insensitively) fails with InvalidFormat; in both cases no document was
\* opened, no library call was made and nothing was written.
C4_ValidationFirst ==
    /\ (Done /\ ~InputPresent) => (result = Raised("NotFound") /\ NothingOpened)
    /\ (Done /\ InputPresent /\ LowerExtension(arg.input_pdf.name) # DotPdf) =>
          (result = Raised("InvalidFormat") /\ NothingOpened)
    /\ (~InputPresent \/ LowerExtension(arg.input_pdf.name) # DotPdf) =>
          (NothingOpened /\ NothingWritten /\ out_path = NoPath)
    /\ log # <<>> => (InputPresent /\ LowerExtension(arg.input_pdf.name) = DotPdf)

\* a missing a.txt fails with NotFound, not with InvalidFormat
C4_Witness ==
    /\ Done
    /\ ~InputPresent
    /\ arg.input_pdf.name = <<"a", ".", "t", "x", "t">>
    /\ result = Raised("NotFound")

\* an existing a.pdf.txt fails with InvalidFormat
C4_WitnessFormat ==
    /\ Done /\ InputPresent
    /\ arg.input_pdf.name = <<"a", ".", "p", "d", "f", ".", "t", "x", "t">>
    /\ result = Raised("InvalidFormat")

\* an existing a.PDF passes validation
C4_WitnessUpperCase == arg.input_pdf.name = <<"a", ".", "P", "D", "F">> /\ ReturnedPath

\* a call on page k that ended the page loop: any call that raised, except a raise
\* of the primary encoder that the Pillow fallback takes over
PageFailures ==
    { k \in LogIdx : /\ log[k].page >= 0
                     /\ log[k].err # ""
                     /\ ~(log[k].op = "get_image_data" /\ env.pillow) }

RaisedBy(k) ==
    IF log[k].op = "get_image_data" THEN "MissingDependency" ELSE log[k].err

\* C5: once rendering, encoding or embedding page k has failed, only the two close()
\* calls follow: no later page is loaded, rendered, encoded or appended, save is not
\* called, nothing is written, and the call ends with that error (or with the error
\* of a close() that raised), never with a path.
C5_PageFailureAborts ==
    \A k \in PageFailures :
        /\ \A m \in LogIdx : m > k => log[m].op \in {"src.close", "dst.close"}
        /\ \A m \in LogIdx : log[m].page <= log[k].page
        /\ Calls("save") = {}
        /\ NothingWritten
        /\ exc = RaisedBy(k)
        /\ pc \in {"close_src", "close_dst", "done"}
        /\ Done => /\ result.kind = "raise"
                   /\ result.error = IF CloseRaised THEN "CloseFailure" ELSE RaisedBy(k)

\* the fallback encoder fails on the first of two pages
C5_Witness ==
    /\ Done
    /\ SourcePages = 2
    /\ \E k \in PageFailures : log[k] = Ev("img.save", 0, "EncodingFailure")
    /\ result = Raised("EncodingFailure")
    /\ Len(dstPages) = 0

\* the mode and size the claim expects of the fallback's image
ExpectedMode == IF pix.n = 1 THEN "L" ELSE "RGB"

\* C6: the primary encoder is tried first; when it succeeds its bytes are the result
\* and Pillow is not called; Pillow is called only after the primary raised; when the
\* primary raised and Pillow is missing the call fails with MissingDependency; when
\* Pillow is there its result (bytes of the pixmap's size, gray for one channel and
\* RGB otherwise, or its error) is the outcome.
C6_EncoderDispatch ==
    /\ \A k \in Calls("get_image_data") :
          /\ k > 1 /\ log[k - 1] = Ev("get_pixmap", log[k].page, "")
          /\ (log[k].err = "" /\ k < Len(log)) => log[k + 1].op = "new_page"
          /\ (log[k].err # "" /\ ~env.pillow) =>
                /\ exc = "MissingDependency"
                /\ k < Len(log) => log[k + 1].op = "src.close"
          /\ (log[k].err # "" /\ env.pillow) =>
                /\ pc = "enc_frombytes" \/ (k < Len(log) /\ log[k + 1].op = "Image.frombytes")
    /\ \A k \in Calls("Image.frombytes") :
          /\ env.pillow
          /\ k > 1 /\ log[k - 1] = Ev("get_image_data", log[k].page, "PrimaryFailure")
          /\ log[k].err # "" => exc = "EncodingFailure"
          /\ (log[k].err # "" /\ k < Len(log)) => log[k + 1].op = "src.close"
    /\ \A k \in Calls("img.save") :
          /\ k > 1 /\ log[k - 1] = Ev("Image.frombytes", log[k].page, "")
          /\ log[k].err # "" => exc = "EncodingFailure"
          /\ (log[k].err # "" /\ k < Len(log)) => log[k + 1].op = "src.close"
    /\ pc = "enc_save" =>
          img = [mode |-> ExpectedMode, width |-> pix.width, height |-> pix.height,
                 page |-> pix.page]
    /\ pc = "new_page" =>
          /\ img_bytes.page = i /\ pix.page = i
          /\ img_bytes.width = pix.width /\ img_bytes.height = pix.height
          /\ img_bytes.mode = ExpectedMode
          /\ img_bytes.quality = arg.quality
          /\ \/ /\ log[Len(log)] = Ev("get_image_data", i, "")
                /\ img_bytes.encoder = "pymupdf"
             \/ /\ log[Len(log)] = Ev("img.save", i, "")
                /\ img_bytes.encoder = "pillow"

\* the primary encoder raised on a gray pixmap and Pillow encoded it
C6_Witness ==
    /\ pc = "new_page"
    /\ arg.grayscale
    /\ img_bytes.encoder = "pillow"
    /\ img_bytes.mode = "L"
    /\ log[Len(log) - 2] = Ev("get_image_data", i, "PrimaryFailure")

\* the primary encoder raised and Pillow is missing
C6_WitnessMissing ==
    /\ Done
    /\ ~env.pillow
    /\ result = Raised("MissingDependency")

\* C7: a call that returns has called save exactly once, after the last page was
\* embedded, on <stem> (01).pdf in the input's directory; that path is never the
\* input path, and the input file is never written.
C7_SaveOnceBesideInput ==
    /\ InputPresent => fs[arg.input_pdf] = Original(arg.input_pdf)
    /\ \A p \in DOMAIN fs : fs[p] # Original(p) => (p = out_path /\ p # arg.input_pdf)
    /\ out_path # NoPath =>
          /\ out_path # arg.input_pdf
          /\ out_path.dir = arg.input_pdf.dir
          /\ out_path.name = PathStem(arg.input_pdf.name) \o Suffix01 \o DotPdf
          /\ Len(out_path.name) = Len(arg.input_pdf.name) + 5
          /\ arg.input_pdf.name = <<"a", " ", "(", "0", "1", ")", ".", "p", "d", "f">> =>
                out_path.name = <<"a", " ", "(", "0", "1", ")", " ", "(", "0", "1", ")",
                                  ".", "p", "d", "f">>
          /\ arg.input_pdf.name \in {<<"a", ".", "p", "d", "f">>, <<"a", ".", "P", "D", "F">>} =>
                out_path.name = <<"a", " ", "(", "0", "1", ")", ".", "p", "d", "f">>
    /\ Cardinality(Calls("save")) <= 1
    /\ \A k \in Calls("save") :
          /\ Cardinality(CallsOk("insert_image")) = SourcePages
          /\ \A m \in Calls("insert_image") : m < k
    /\ ReturnedPath =>
          /\ Cardinality(CallsOk("save")) = 1
          /\ result.path = out_path
          /\ fs[out_path] = Saved(dstPages)

\* an input already named "a (01).pdf" is converted into "a (01) (01).pdf"
C7_Witness ==
    /\ ReturnedPath
    /\ arg.input_pdf = PriorOutput
    /\ SourcePages = 2
    /\ result.path # arg.input_pdf
    /\ fs[result.path].kind = "rasterized"

\* the calls made for page k when nothing raises, in order
PageSteps == <<"load_page", "get_pixmap", "get_image_data", "new_page",
               "fit_rect_keep_aspect", "insert_image">>

\* the page calls of the log: the fallback encoder's calls belong to the encode step
PageCalls == SelectSeq(log, LAMBDA e : e.page >= 0 /\ e.op \notin {"Image.frombytes", "img.save"})

\* C10: pages are handled one at a time and in order, each by render, encode, append,
\* placement, embed in that order; page k + 1 is not rendered before page k is
\* embedded; at the start of iteration i the destination has i pages with exactly one
\* image each.
C10_SequentialPages ==
    /\ \A k \in 1..Len(PageCalls) :
          /\ PageCalls[k].page = (k - 1) \div 6
          /\ PageCalls[k].op = PageSteps[((k - 1) % 6) + 1]
    /\ \A k \in Calls("get_pixmap") :
          log[k].page > 0 =>
             \E m \in 1..(k - 1) : log[m] = Ev("insert_image", log[k].page - 1, "")
    /\ \A k \in LogIdx :
          (log[k].page >= 0 /\ log[k].op # "get_image_data" /\ log[k].err # "") =>
             \A m \in LogIdx : m > k => log[m].page < 0
    /\ pc \in {"loop", "load_page"} =>
          /\ Len(dstPages) = i
          /\ \A k \in 1..Len(dstPages) :
                /\ Len(dstPages[k].images) = 1
                /\ dstPages[k].images[1].stream.page = k - 1

\* the second iteration starts: one page with one image is in the destination
C10_Witness ==
    /\ pc = "load_page"
    /\ i = 1
    /\ Len(dstPages) = 1
    /\ Len(dstPages[1].images) = 1
    /\ Len(PageCalls) = 6

====
